---- MODULE Spec2Model ----
(***************************************************************************)
(* Model of src/main.py, the Porous Metamaterial Designer: a Streamlit     *)
(* script that draws a random geometric graph (networkx), lays it out in   *)
(* 3D, builds a plotly scene from it and reports structural metrics.       *)
(*                                                                         *)
(* Reals are modelled exactly on a grid.  A placement coordinate k stands  *)
(* for k/Scale (random() is in [0,1), so k ranges over 0..Scale-1), a      *)
(* connectivity k stands for the radius k/Scale, and a metric is a         *)
(* fraction <<numerator, denominator>> that is compared by cross           *)
(* multiplication.  An optional value is a sequence of length 0 or 1:      *)
(* None is Python's None (or an unbound name), Some(x) a bound value.      *)
(***************************************************************************)
EXTENDS Integers, Sequences, FiniteSets

VARIABLES n_nodes, connectivity, G, pos, fig, metrics, error, pc,
          button, message, before

vars == <<n_nodes, connectivity, G, pos, fig, metrics, error, pc,
          button, message, before>>

\* Largest node count the model passes to the pipeline.
MaxN == 3
\* Resolution of the placement grid in the unit square.
Scale == 2
\* The outcomes of the randomised spring layout are numbered 0..MaxSeed.
MaxSeed == 1

None == <<>>
Some(x) == <<x>>

\* Arguments generate_sample_graph is called with.  The function checks
\* neither of them; connectivities above Scale stand for radii above 1.0.
NodeCounts == 1..MaxN
MaxConn == (3 * Scale + 1) \div 2
Connectivities == 0..MaxConn
\* What the two sliders can deliver: a positive node count and a
\* connectivity between 0.0 and 1.0.
NodeSlider == 1..MaxN
ConnSlider == 0..Scale
Buttons == {"export_data", "generate_report"}

Nodes(n) == 0..(n - 1)
\* pos = {v: [random() for i in range(2)] for v in nodes}
Grid == (0..(Scale - 1)) \X (0..(Scale - 1))
Placements(n) == [Nodes(n) -> Grid]

----------------------------------------------------------------------------
\* nx.random_geometric_graph(n, radius): dim = 2, p = 2.

Dist2XOnly(p, q) == (p[1] - q[1]) * (p[1] - q[1])
\* sum(abs(a - b) ** p for a, b in zip(pu, pv)), in grid units.
Dist2(p, q) ==
    (p[1] - q[1]) * (p[1] - q[1]) + (p[2] - q[2]) * (p[2] - q[2])

WithinStrict(p, q, radius) == Dist2(p, q) < radius * radius
\* Two nodes are joined when their distance is at most radius.
Within(p, q, radius) == Dist2(p, q) <= radius * radius

RECURSIVE combinationsWithSelf(_, _, _)
combinationsWithSelf(u, v, n) ==
    IF u >= n THEN <<>>
    ELSE IF v >= n THEN combinationsWithSelf(u + 1, u + 1, n)
    ELSE <<(<<u, v>>)>> \o combinationsWithSelf(u, v + 1, n)

\* itertools.combinations(nodes, 2) from the pair (u, v) on, in its order.
RECURSIVE combinations(_, _, _)
combinations(u, v, n) ==
    IF u >= n - 1 THEN <<>>
    ELSE IF v >= n THEN combinations(u + 1, u + 2, n)
    ELSE <<(<<u, v>>)>> \o combinations(u, v + 1, n)

\* The edges in the order they are added: every pair within the radius,
\* sorted by (u, v).
geometric_edges(n, place, radius) ==
    SelectSeq(combinations(0, 1, n),
              LAMBDA e : Within(place[e[1]], place[e[2]], radius))

random_geometric_graph(n, radius, place) ==
    [nodes |-> Nodes(n),
     place |-> place,
     edges |-> geometric_edges(n, place, radius)]

----------------------------------------------------------------------------
\* Graph accessors.

EdgeCount(g) == Len(g.edges)

RECURSIVE DegreeTailOnly(_, _, _)
DegreeTailOnly(g, v, i) ==
    IF i > Len(g.edges) THEN 0
    ELSE (IF g.edges[i][1] = v THEN 1 ELSE 0) + DegreeTailOnly(g, v, i + 1)

\* G.degree(v): the edges incident to v, counted from the i-th edge on.
RECURSIVE Degree(_, _, _)
Degree(g, v, i) ==
    IF i > Len(g.edges) THEN 0
    ELSE (IF g.edges[i][1] = v THEN 1 ELSE 0)
         + (IF g.edges[i][2] = v THEN 1 ELSE 0)
         + Degree(g, v, i + 1)

Adjacent(g, u, v) ==
    \E i \in 1..Len(g.edges) : g.edges[i] = <<u, v>> \/ g.edges[i] = <<v, u>>

Neighbors(g, v) == {u \in g.nodes : Adjacent(g, u, v)}

\* G.nodes() in insertion order, which is 0, 1, ..., n-1.
NodeSeq(g) == [i \in 1..Cardinality(g.nodes) |-> i - 1]

----------------------------------------------------------------------------
\* nx.spring_layout(G, dim=3).

\* One outcome of the force-directed iteration for node v.
LayoutPoint(v, s) == <<v + s, v - s, s>>

spring_layout_connected_only(g, s) ==
    [v \in {u \in g.nodes : Degree(g, u, 1) > 0} |-> LayoutPoint(v, s)]

\* A single node is put at the centre; otherwise every node gets one 3D
\* point (none for a graph without nodes).
spring_layout(g, s) ==
    IF Cardinality(g.nodes) = 1
    THEN [v \in g.nodes |-> <<0, 0, 0>>]
    ELSE [v \in g.nodes |-> LayoutPoint(v, s)]

----------------------------------------------------------------------------
\* create_3d_graph(G, pos).

RECURSIVE EdgeBufferNoBreak(_, _, _, _)
EdgeBufferNoBreak(g, p, k, i) ==
    IF i > Len(g.edges) THEN <<>>
    ELSE <<Some(p[g.edges[i][1]][k]), Some(p[g.edges[i][2]][k])>>
         \o EdgeBufferNoBreak(g, p, k, i + 1)

\* edge_x / edge_y / edge_z (k = 1, 2, 3) after the loop over G.edges():
\* each edge extends the buffer by [x0, x1, None].
RECURSIVE EdgeBuffer(_, _, _, _)
EdgeBuffer(g, p, k, i) ==
    IF i > Len(g.edges) THEN <<>>
    ELSE <<Some(p[g.edges[i][1]][k]), Some(p[g.edges[i][2]][k]), None>>
         \o EdgeBuffer(g, p, k, i + 1)

\* node_x / node_y / node_z after the loop over G.nodes().
NodeBuffer(g, p, k) == [i \in 1..Cardinality(g.nodes) |-> p[NodeSeq(g)[i]][k]]

\* pos[edge[0]], pos[edge[1]] and pos[node] raise KeyError for a missing key.
LookupFails(g, p) ==
    \/ \E i \in 1..Len(g.edges) :
           g.edges[i][1] \notin DOMAIN p \/ g.edges[i][2] \notin DOMAIN p
    \/ \E v \in g.nodes : v \notin DOMAIN p

Figure(g, p) ==
    [edge_trace |-> [x |-> EdgeBuffer(g, p, 1, 1),
                     y |-> EdgeBuffer(g, p, 2, 1),
                     z |-> EdgeBuffer(g, p, 3, 1),
                     mode |-> "lines"],
     node_trace |-> [x |-> NodeBuffer(g, p, 1),
                     y |-> NodeBuffer(g, p, 2),
                     z |-> NodeBuffer(g, p, 3),
                     mode |-> "markers"]]

create_3d_graph_skip_missing(g, p) ==
    LET known == [nodes |-> g.nodes \cap DOMAIN p,
                  place |-> g.place,
                  edges |-> SelectSeq(g.edges,
                               LAMBDA e : e[1] \in DOMAIN p /\ e[2] \in DOMAIN p)]
        q == [v \in g.nodes |-> IF v \in DOMAIN p THEN p[v] ELSE <<0, 0, 0>>]
    IN  [error |-> "none",
         fig |-> Some([edge_trace |-> [x |-> EdgeBuffer(known, p, 1, 1),
                                       y |-> EdgeBuffer(known, p, 2, 1),
                                       z |-> EdgeBuffer(known, p, 3, 1),
                                       mode |-> "lines"],
                       node_trace |-> [x |-> NodeBuffer(g, q, 1),
                                       y |-> NodeBuffer(g, q, 2),
                                       z |-> NodeBuffer(g, q, 3),
                                       mode |-> "markers"]])]

\* The call either raises (nothing is returned) or returns the figure.
create_3d_graph(g, p) ==
    IF LookupFails(g, p)
    THEN [error |-> "KeyError", fig |-> None]
    ELSE [error |-> "none", fig |-> Some(Figure(g, p))]

----------------------------------------------------------------------------
\* The metrics dictionary.

RECURSIVE SumDegrees(_, _)
SumDegrees(g, i) ==
    IF i > Cardinality(g.nodes) THEN 0
    ELSE Degree(g, NodeSeq(g)[i], 1) + SumDegrees(g, i + 1)

\* np.mean([d for n, d in G.degree()]): the sum over the length (0/0 is nan).
average_degree(g) == <<SumDegrees(g, 1), Cardinality(g.nodes)>>

density_directed(g) ==
    LET n == Cardinality(g.nodes)
        m == EdgeCount(g)
    IN  IF m = 0 \/ n <= 1 THEN <<0, 1>> ELSE <<m, n * (n - 1)>>

\* nx.density(G): 0 if m == 0 or n <= 1, else 2 * m / (n * (n - 1)).
density(g) ==
    LET n == Cardinality(g.nodes)
        m == EdgeCount(g)
    IN  IF m = 0 \/ n <= 1 THEN <<0, 1>> ELSE <<2 * m, n * (n - 1)>>

\* Twice the number of triangles through v.
Triangles2(g, v) ==
    Cardinality({e \in Neighbors(g, v) \X Neighbors(g, v) :
                    e[1] # e[2] /\ Adjacent(g, e[1], e[2])})

\* nx.clustering(G)[v]: 0 if t == 0 else t / (d * (d - 1)).
clustering(g, v) ==
    LET t == Triangles2(g, v)
        d == Degree(g, v, 1)
    IN  IF t = 0 THEN <<0, 1>> ELSE <<t, d * (d - 1)>>

RAdd(a, b) == <<a[1] * b[2] + b[1] * a[2], a[2] * b[2]>>

RECURSIVE SumClustering(_, _)
SumClustering(g, i) ==
    IF i > Cardinality(g.nodes) THEN <<0, 1>>
    ELSE RAdd(clustering(g, NodeSeq(g)[i]), SumClustering(g, i + 1))

\* nx.average_clustering(G): sum(c) / len(c).
average_clustering(g) ==
    LET s == SumClustering(g, 1)
    IN  <<s[1], s[2] * Cardinality(g.nodes)>>

Metrics(g) ==
    [average_degree |-> average_degree(g),
     density |-> density(g),
     average_clustering |-> average_clustering(g)]

----------------------------------------------------------------------------
\* The script.  Streamlit runs it from the top on page load and again on
\* every widget event; pc is the statement the run is about to execute.

StartRun(n, c, b) ==
    /\ n_nodes' = n
    /\ connectivity' = c
    /\ button' = b
    /\ G' = None /\ pos' = None /\ fig' = None /\ metrics' = None
    /\ error' = "none"
    /\ message' = "none"
    /\ pc' = "generate"

\* The pipeline is entered with some node count and connectivity.
Init ==
    /\ n_nodes \in NodeCounts
    /\ connectivity \in Connectivities
    /\ G = None /\ pos = None /\ fig = None /\ metrics = None
    /\ error = "none"
    /\ pc = "generate"
    /\ button = "none"
    /\ message = "none"
    /\ before = None

\* Page load: the sliders hold a value of their range and no button is down.
InitUI ==
    /\ n_nodes \in NodeSlider
    /\ connectivity \in ConnSlider
    /\ G = None /\ pos = None /\ fig = None /\ metrics = None
    /\ error = "none"
    /\ pc = "generate"
    /\ button = "none"
    /\ message = "none"
    /\ before = None

\* G, pos = generate_sample_graph(n_nodes, connectivity)
Generate ==
    /\ pc = "generate"
    /\ \E place \in Placements(n_nodes), s \in 0..MaxSeed :
         LET g == random_geometric_graph(n_nodes, connectivity, place)
         IN  /\ G' = Some(g)
             /\ pos' = Some(spring_layout(g, s))
    /\ pc' = "scene"
    /\ UNCHANGED <<n_nodes, connectivity, fig, metrics, error, button,
                   message, before>>

\* fig = create_3d_graph(G, pos); st.plotly_chart(fig)
BuildScene ==
    /\ pc = "scene"
    /\ LET r == create_3d_graph(G[1], pos[1])
       IN  /\ fig' = r.fig
           /\ error' = r.error
           /\ pc' = IF r.error = "none" THEN "metrics" ELSE "failed"
    /\ UNCHANGED <<n_nodes, connectivity, G, pos, metrics, button, message,
                   before>>

\* metrics = {...}
ComputeMetrics ==
    /\ pc = "metrics"
    /\ metrics' = Some(Metrics(G[1]))
    /\ pc' = "export"
    /\ UNCHANGED <<n_nodes, connectivity, G, pos, fig, error, button,
                   message, before>>

\* The two st.button branches.
ExportOptions ==
    /\ pc = "export"
    /\ message' = IF button = "export_data"
                  THEN "Structure data ready for download!"
                  ELSE IF button = "generate_report"
                  THEN "Report generated successfully!"
                  ELSE "none"
    /\ pc' = "done"
    /\ UNCHANGED <<n_nodes, connectivity, G, pos, fig, metrics, error,
                   button, before>>

\* The pipeline is called again with new arguments.
Call ==
    /\ pc = "done"
    /\ \E n \in NodeCounts, c \in Connectivities : StartRun(n, c, "none")
    /\ before' = None

\* A slider is moved: the script reruns with the new values.
MoveSlider ==
    /\ pc = "done"
    /\ \E n \in NodeSlider, c \in ConnSlider :
         /\ <<n, c>> # <<n_nodes, connectivity>>
         /\ StartRun(n, c, "none")
    /\ before' = None

\* What the page shows of a finished run: the graph's nodes and edges, the
\* node positions, the chart and the metrics.
Page ==
    [nodes |-> G[1].nodes, edges |-> G[1].edges, pos |-> pos, fig |-> fig,
     metrics |-> metrics]

\* A button is pressed: the script reruns with the sliders as they are and
\* st.button(key) true for this run.  before remembers what was on the page.
PressButton ==
    /\ pc = "done"
    /\ \E b \in Buttons : StartRun(n_nodes, connectivity, b)
    /\ before' = Some(Page)

Next == Generate \/ BuildScene \/ ComputeMetrics \/ ExportOptions \/ Call

Spec == Init /\ [][Next]_vars

NextUI ==
    \/ Generate
    \/ BuildScene
    \/ ComputeMetrics
    \/ ExportOptions
    \/ MoveSlider
    \/ PressButton

SpecUI == InitUI /\ [][NextUI]_vars

----------------------------------------------------------------------------
\* create_3d_graph on its own, over every simple graph on 0..n-1 and every
\* position map, complete or not.

AllPairs(n) == {e \in Nodes(n) \X Nodes(n) : e[1] < e[2]}

\* G.edges() reports each edge once, from its lower endpoint, the nodes in
\* order and the neighbours of a node in the order they were added.
EdgeSeqs(n) ==
    UNION {{s \in [1..k -> AllPairs(n)] :
               /\ \A i, j \in 1..k : i < j => s[i] # s[j]
               /\ \A i, j \in 1..k : i < j => s[i][1] <= s[j][1]}
           : k \in 0..Cardinality(AllPairs(n))}

\* Any node may sit at any of the layout points, and any node may be missing.
PositionMaps(n) ==
    UNION {[D -> {LayoutPoint(0, s) : s \in 0..MaxSeed}]
           : D \in SUBSET Nodes(n)}

InitScene ==
    /\ n_nodes \in 0..MaxN
    /\ connectivity = 0
    /\ \E es \in EdgeSeqs(n_nodes) :
         G = Some([nodes |-> Nodes(n_nodes),
                   place |-> [v \in Nodes(n_nodes) |-> <<0, 0>>],
                   edges |-> es])
    /\ \E p \in PositionMaps(n_nodes) : pos = Some(p)
    /\ fig = None /\ metrics = None
    /\ error = "none"
    /\ pc = "scene"
    /\ button = "none"
    /\ message = "none"
    /\ before = None

NextScene == BuildScene

SpecScene == InitScene /\ [][NextScene]_vars

----------------------------------------------------------------------------
\* Properties.

Generated == G # None
Graph == G[1]
FirstOf(i) == Graph.edges[i][1]
SecondOf(i) == Graph.edges[i][2]
ValidInput == n_nodes >= 1 /\ connectivity >= 0 /\ connectivity <= Scale

\* C1: generate_sample_graph returns a graph whose node set is exactly
\* 0..N-1 and whose edges are simple: each joins two distinct existing
\* nodes and no unordered pair appears twice.
GenerateReturnsSimpleGraph ==
    Generated =>
        /\ Graph.nodes = 0..(n_nodes - 1)
        /\ Cardinality(Graph.nodes) = n_nodes
        /\ \A i \in 1..EdgeCount(Graph) :
              /\ FirstOf(i) \in Graph.nodes
              /\ SecondOf(i) \in Graph.nodes
              /\ FirstOf(i) # SecondOf(i)
        /\ \A i, j \in 1..EdgeCount(Graph) :
              i # j => {FirstOf(i), SecondOf(i)} # {FirstOf(j), SecondOf(j)}

\* A three-node graph with at least two edges has been generated from a
\* connectivity inside [0, 1].
GenerateReturnsSimpleGraphWitness ==
    /\ Generated
    /\ ValidInput
    /\ n_nodes = 3
    /\ EdgeCount(Graph) >= 2

\* C2 as stated: with connectivity 0 the generated graph has no edges,
\* whatever the placement.
ZeroConnectivityNoEdges ==
    (Generated /\ connectivity = 0) => EdgeCount(Graph) = 0

SamePlace(u, v) == Graph.place[u] = Graph.place[v]

\* C2 amended: with connectivity 0 the edges are exactly the pairs of nodes
\* placed on the same point, so there is none when the points are pairwise
\* distinct.
ZeroConnectivityJoinsCoincidentOnly ==
    (Generated /\ connectivity = 0) =>
        /\ \A u, v \in Graph.nodes :
              u # v => (Adjacent(Graph, u, v) <=> SamePlace(u, v))
        /\ (\A u, v \in Graph.nodes : u # v => ~SamePlace(u, v))
              => EdgeCount(Graph) = 0

\* Connectivity 0, three nodes on three different points, no edge.
ZeroConnectivityWitness ==
    /\ Generated
    /\ connectivity = 0
    /\ n_nodes = 3
    /\ \A u, v \in Graph.nodes : u # v => ~SamePlace(u, v)
    /\ EdgeCount(Graph) = 0

\* C3: a run whose node count is not positive or whose connectivity is
\* outside [0, 1] is rejected with InvalidParameter and produces no graph,
\* positions, scene or metrics.
InvalidParameterRejected ==
    (~ValidInput /\ pc # "generate") =>
        /\ error = "InvalidParameter"
        /\ G = None /\ pos = None /\ fig = None /\ metrics = None

\* C4: the reported average degree is exactly 2 * edgeCount / nodeCount.
AverageDegreeIdentity ==
    (metrics # None /\ n_nodes >= 1) =>
        LET a == metrics[1].average_degree
        IN  /\ a[2] > 0
            /\ a[1] * n_nodes = 2 * EdgeCount(Graph) * a[2]

\* Metrics were computed for a graph with an isolated node and an edge.
AverageDegreeWitness ==
    /\ metrics # None
    /\ n_nodes = 3
    /\ EdgeCount(Graph) = 1

\* C5: the density is 2 * edgeCount / (nodeCount * (nodeCount - 1)) for
\* two or more nodes and 0 for fewer; it lies in [0, 1] and is 0 when
\* there is no edge.
DensityFormula ==
    metrics # None =>
        LET d == metrics[1].density
            n == Cardinality(Graph.nodes)
        IN  /\ d[2] > 0
            /\ n >= 2 => d[1] * n * (n - 1) = 2 * EdgeCount(Graph) * d[2]
            /\ n < 2 => d[1] = 0
            /\ 0 <= d[1] /\ d[1] <= d[2]
            /\ EdgeCount(Graph) = 0 => d[1] = 0

\* Metrics were computed for a graph with two of its three possible edges.
DensityWitness ==
    /\ metrics # None
    /\ n_nodes = 3
    /\ EdgeCount(Graph) = 2

Covered == Generated /\ pos # None /\ Graph.nodes \subseteq DOMAIN pos[1]
Built == pc # "scene" /\ pc # "generate"

\* C6: for positions covering the graph, the scene has one line per edge
\* and one point per node: each of the three edge buffers holds, for the
\* i-th edge, the coordinate of its first endpoint, of its second endpoint
\* and a None break, and each node buffer holds the coordinate of the
\* i-th node.
SceneOnePrimitivePerElement ==
    (Covered /\ Built) =>
        /\ fig # None
        /\ \A k \in 1..3 :
              LET eb == IF k = 1 THEN fig[1].edge_trace.x
                        ELSE IF k = 2 THEN fig[1].edge_trace.y
                        ELSE fig[1].edge_trace.z
                  nb == IF k = 1 THEN fig[1].node_trace.x
                        ELSE IF k = 2 THEN fig[1].node_trace.y
                        ELSE fig[1].node_trace.z
              IN  /\ Len(eb) = 3 * EdgeCount(Graph)
                  /\ \A i \in 1..EdgeCount(Graph) :
                        /\ eb[3 * i - 2] = Some(pos[1][FirstOf(i)][k])
                        /\ eb[3 * i - 1] = Some(pos[1][SecondOf(i)][k])
                        /\ eb[3 * i] = None
                  /\ Len(nb) = Cardinality(Graph.nodes)
                  /\ \A i \in 1..Len(nb) : nb[i] = pos[1][i - 1][k]

\* A scene was built for three nodes at positions that are not all the
\* same, joined by two edges or more.
SceneWitness ==
    /\ Covered /\ Built
    /\ fig # None
    /\ Cardinality(Graph.nodes) = 3
    /\ EdgeCount(Graph) >= 2
    /\ pos[1][0] # pos[1][1]

\* C7: the position map returned with a graph has the node set as its
\* domain, isolated nodes included, and gives each node three coordinates.
LayoutCoversNodes ==
    Generated =>
        /\ pos # None
        /\ DOMAIN pos[1] = Graph.nodes
        /\ \A v \in Graph.nodes : Len(pos[1][v]) = 3

\* A graph with an isolated node and a connected one has been laid out.
LayoutWitness ==
    /\ Generated
    /\ pos # None
    /\ \E v \in Graph.nodes : Degree(Graph, v, 1) = 0
    /\ \E v \in Graph.nodes : Degree(Graph, v, 1) > 0

\* C8: create_3d_graph fails, returning no scene, when some node has no
\* position (the lookup's KeyError is the incomplete-layout error), and
\* succeeds whenever every node has one.
IncompleteLayoutFails ==
    (Generated /\ pos # None /\ Built) =>
        IF Graph.nodes \subseteq DOMAIN pos[1]
        THEN error = "none" /\ fig # None /\ pc = "metrics"
        ELSE error = "KeyError" /\ fig = None /\ pc = "failed"

\* The call failed on a graph whose edges all have positions for both
\* endpoints: only an isolated node lacks one.
IncompleteLayoutWitness ==
    /\ Generated /\ pos # None
    /\ pc = "failed"
    /\ EdgeCount(Graph) >= 1
    /\ \A i \in 1..EdgeCount(Graph) :
          FirstOf(i) \in DOMAIN pos[1] /\ SecondOf(i) \in DOMAIN pos[1]

AllWithin ==
    \A u, v \in Graph.nodes :
        Dist2(Graph.place[u], Graph.place[v]) <= connectivity * connectivity
AtLeastSqrt2 == connectivity * connectivity >= 2 * Scale * Scale

\* C9 as stated: when the threshold is at least every pairwise distance,
\* in particular from sqrt(2) on, the graph is complete with N*(N-1)/2
\* edges, density 1 and average degree N-1.
CompleteGraphDensityOne ==
    (metrics # None /\ (AllWithin \/ AtLeastSqrt2)) =>
        /\ 2 * EdgeCount(Graph) = n_nodes * (n_nodes - 1)
        /\ metrics[1].density[1] = metrics[1].density[2]
        /\ metrics[1].average_degree[1]
              = (n_nodes - 1) * metrics[1].average_degree[2]

\* C9 amended: the graph is complete with N*(N-1)/2 edges and average
\* degree N-1; the density is 1 for two or more nodes and 0 for one.
CompleteGraphMetrics ==
    (metrics # None /\ (AllWithin \/ AtLeastSqrt2)) =>
        /\ 2 * EdgeCount(Graph) = n_nodes * (n_nodes - 1)
        /\ \A u, v \in Graph.nodes : u # v => Adjacent(Graph, u, v)
        /\ n_nodes >= 2 => metrics[1].density[1] = metrics[1].density[2]
        /\ n_nodes = 1 => metrics[1].density[1] = 0
        /\ metrics[1].average_degree[1]
              = (n_nodes - 1) * metrics[1].average_degree[2]

\* Three nodes, not all on one point, every distance exactly at or below a
\* threshold smaller than sqrt(2): the triangle.
CompleteGraphWitness ==
    /\ metrics # None
    /\ n_nodes = 3
    /\ AllWithin /\ ~AtLeastSqrt2
    /\ \E u, v \in Graph.nodes : ~SamePlace(u, v)
    /\ EdgeCount(Graph) = 3

\* C10: after a run started by a button press, the graph, positions,
\* scene and metrics are those that were there before the press.
ButtonPressChangesNothing ==
    (pc = "done" /\ button # "none") =>
        before = Some(Page)

====
